---- MODULE Spec2Model ----
(***************************************************************************)
(* Block Blast clone (src/script.js): the 8x8 board, the tray of three     *)
(* pieces, drag-and-drop placement, line clearing, scoring, levels,        *)
(* rotation, the game-over modal and restart, as a state machine.          *)
(*                                                                         *)
(* Conventions.  Rows, columns and tray slots are 0-based as in the        *)
(* source; a shape matrix is a sequence of rows, read through Cell(m,r,c)  *)
(* with 0-based r and c.  JavaScript null is NULL (grid cell) or NullPiece *)
(* (tray slot); a color is its index 1..6 into CONFIG.COLORS.              *)
(* Math.random() is a value k/1000, k in 0..999, written as the integer k. *)
(***************************************************************************)
EXTENDS Integers, Sequences, FiniteSets, TLC

VARIABLES
  grid,          \* this.grid: grid[r][c] is NULL or a color
  score,         \* this.score
  highScore,     \* this.highScore
  level,         \* this.level
  activePieces,  \* this.activePieces: slot -> piece or NullPiece
  used,          \* dataset.used of the piece container of each slot
  modalHidden,   \* the game-over modal carries the class 'hidden'
  draggedPiece,  \* the closure variable draggedPiece of setupInputHandlers
  last,          \* the input event handled last and what it did
  events         \* number of input events handled so far

vars == <<grid, score, highScore, level, activePieces, used, modalHidden,
          draggedPiece, last, events>>

(***************************************************************************)
(* Program constants                                                       *)
(***************************************************************************)
GRID_SIZE == 8

NumColors == 6

pxPerLine == 100

LevelStep == 500

TraySize == 3

NULL == 0

Cells == 0 .. (GRID_SIZE - 1)

Slots == 0 .. (TraySize - 1)

SMALL_BLOCKS ==
  << << <<1>> >>,
     << <<1, 1>> >>,
     << <<1>>, <<1>> >> >>

TETROMINOES ==
  << << <<1, 1, 1, 1>> >>,
     << <<1>>, <<1>>, <<1>>, <<1>> >>,
     << <<1, 1>>, <<1, 1>> >>,
     << <<0, 1, 0>>, <<1, 1, 1>> >>,
     << <<1, 0>>, <<1, 1>>, <<1, 0>> >>,
     << <<0, 1, 1>>, <<1, 1, 0>> >>,
     << <<1, 1, 0>>, <<0, 1, 1>> >>,
     << <<1, 0, 0>>, <<1, 1, 1>> >>,
     << <<0, 0, 1>>, <<1, 1, 1>> >>,
     << <<1, 1>>, <<1, 0>>, <<1, 0>> >>,
     << <<1, 1>>, <<0, 1>>, <<0, 1>> >> >>

COMPLEX_SHAPES ==
  << << <<1, 1, 1>>, <<1, 1, 1>> >>,
     << <<1, 1, 1>>, <<1, 0, 1>> >>,
     << <<1, 0, 0>>, <<1, 0, 0>>, <<1, 1, 1>> >>,
     << <<0, 0, 1>>, <<0, 0, 1>>, <<1, 1, 1>> >> >>

(***************************************************************************)
(* Bounds of the exploration                                               *)
(***************************************************************************)
\* input events explored after the initial state
MaxEvents == 3

\* a release may land up to MaxOff cells outside the board on every side
MaxOff == 1

Anchors == (0 - MaxOff) .. (GRID_SIZE - 1 + MaxOff)

(***************************************************************************)
(* Shapes and pieces                                                       *)
(***************************************************************************)
NullPiece == [shape |-> << >>, color |-> NULL]

NumRows(m) == Len(m)

NumCols(m) == Len(m[1])

Cell(m, r, c) == m[r + 1][c + 1]

\* the (r, c) of the occupied cells of a shape matrix
Occupied(m) ==
  {rc \in (0 .. (NumRows(m) - 1)) \X (0 .. (NumCols(m) - 1)) :
      Cell(m, rc[1], rc[2]) = 1}

EmptyGrid == [r \in Cells |-> [c \in Cells |-> NULL]]

\* RotateMatrix with the two directions exchanged
RotateMatrixSwapped(matrix, clockwise) ==
  LET rows == NumRows(matrix)
      cols == NumCols(matrix)
      newRows == cols
      newCols == rows
  IN  [i \in 1 .. newRows |->
         [j \in 1 .. newCols |->
            IF clockwise
              THEN matrix[j][cols + 1 - i]
              ELSE matrix[rows + 1 - j][i]]]

\* RotateMatrix with the clockwise target column off by one (rows - r for
\* rows - 1 - r): column 0 of the new matrix keeps its initial 0 and the
\* cells of row 0 land outside it
RotateMatrixShifted(matrix, clockwise) ==
  LET rows == NumRows(matrix)
      cols == NumCols(matrix)
      newRows == cols
      newCols == rows
  IN  [i \in 1 .. newRows |->
         [j \in 1 .. newCols |->
            IF clockwise
              THEN IF j = 1 THEN 0 ELSE matrix[rows + 2 - j][i]
              ELSE matrix[j][cols + 1 - i]]]

RotateMatrix(matrix, clockwise) ==
  LET rows == NumRows(matrix)
      cols == NumCols(matrix)
      newRows == cols
      newCols == rows
  IN  [i \in 1 .. newRows |->
         [j \in 1 .. newCols |->
            IF clockwise
              THEN \* (r, c) -> (c, rows - 1 - r)
                   matrix[rows + 1 - j][i]
              ELSE \* (r, c) -> (cols - 1 - c, r)
                   matrix[j][cols + 1 - i]]]

(***************************************************************************)
(* isValidPlacement (src/script.js 331-352)                                *)
(*                                                                         *)
(* The double loop visits the cells of the shape in row-major order and    *)
(* returns at the first failing cell.  The result records the returned     *)
(* value and the grid reads the loop made before returning: `outside` is   *)
(* set by a read this.grid[targetR][targetC] with an index off the board,  *)
(* `fault` by such a read with targetR off the board (this.grid[targetR]   *)
(* is undefined and indexing it throws a TypeError).                       *)
(***************************************************************************)
\* OnBoard with the lower bound of the row test off by one (> for >=)
OnBoardRowLoose(targetR, targetC) ==
  ~ (targetR < 0 \/ targetR > GRID_SIZE \/ targetC < 0 \/ targetC >= GRID_SIZE)

OnBoard(targetR, targetC) ==
  ~ (targetR < 0 \/ targetR >= GRID_SIZE \/ targetC < 0 \/ targetC >= GRID_SIZE)

\* CellNotNull with the occupancy test left out
CellNotNullNever(g, targetR, targetC) == FALSE

\* this.grid[targetR][targetC] !== null, for a read that does not throw:
\* off the board in the column only, the read yields undefined
CellNotNull(g, targetR, targetC) ==
  IF targetC \in Cells THEN g[targetR][targetC] # NULL ELSE TRUE

RECURSIVE ScanPlacement(_, _, _, _, _, _)
ScanPlacement(g, startCol, startRow, shape, k, outside) ==
  LET cols == NumCols(shape)
      r == k \div cols
      c == k % cols
      targetR == startRow + r
      targetC == startCol + c
  IN  IF k >= NumRows(shape) * cols
        THEN [value |-> TRUE, fault |-> FALSE, outside |-> outside]
      ELSE IF Cell(shape, r, c) # 1
        THEN ScanPlacement(g, startCol, startRow, shape, k + 1, outside)
      ELSE IF ~ OnBoard(targetR, targetC)
        THEN [value |-> FALSE, fault |-> FALSE, outside |-> outside]
      ELSE IF targetR \notin Cells
        THEN [value |-> FALSE, fault |-> TRUE, outside |-> TRUE]
      ELSE IF CellNotNull(g, targetR, targetC)
        THEN [value |-> FALSE, fault |-> FALSE,
              outside |-> outside \/ targetC \notin Cells]
      ELSE ScanPlacement(g, startCol, startRow, shape, k + 1,
                         outside \/ targetC \notin Cells)

ValidPlacementRun(g, startCol, startRow, piece) ==
  IF piece = NullPiece
    THEN [value |-> FALSE, fault |-> FALSE, outside |-> FALSE]
    ELSE ScanPlacement(g, startCol, startRow, piece.shape, 0, FALSE)

isValidPlacement(g, startCol, startRow, piece) ==
  ValidPlacementRun(g, startCol, startRow, piece).value

(***************************************************************************)
(* placePiece, checkForLines, clearLines, updateScore                      *)
(***************************************************************************)
\* FillCells without the test piece.shape[r][c] === 1: the whole matrix
\* of the piece is written
FillCellsBox(g, col, row, piece) ==
  [r \in Cells |->
     [c \in Cells |->
        IF /\ r - row \in 0 .. (NumRows(piece.shape) - 1)
           /\ c - col \in 0 .. (NumCols(piece.shape) - 1)
          THEN piece.color
          ELSE g[r][c]]]

\* the loop of placePiece: every occupied cell of the piece is written
\* with the piece's color, whatever the cell held
FillCells(g, col, row, piece) ==
  [r \in Cells |->
     [c \in Cells |->
        IF <<r - row, c - col>> \in Occupied(piece.shape)
          THEN piece.color
          ELSE g[r][c]]]

rowsToClear(g) == {r \in Cells : \A c \in Cells : g[r][c] # NULL}

colsToClear(g) == {c \in Cells : \A r \in Cells : g[r][c] # NULL}

\* cellsToClear with the columns handled only when no row is full
cellsToClearRowsElseCols(rows, cols) ==
  {rc \in Cells \X Cells :
     IF rows # {} THEN rc[1] \in rows ELSE rc[2] \in cols}

\* the Set of "r,c" keys built by clearLines
cellsToClear(rows, cols) ==
  {rc \in Cells \X Cells : rc[1] \in rows \/ rc[2] \in cols}

\* ClearCells emptying the full rows only
ClearCellsRowsOnly(g, rows, cols) ==
  [r \in Cells |->
     [c \in Cells |-> IF r \in rows THEN NULL ELSE g[r][c]]]

ClearCells(g, rows, cols) ==
  [r \in Cells |->
     [c \in Cells |->
        IF <<r, c>> \in cellsToClear(rows, cols) THEN NULL ELSE g[r][c]]]

\* Multiplier2 with x3 only above four lines (> for >=)
Multiplier2Above4(lineCount) ==
  IF lineCount > 4 THEN 6
  ELSE IF lineCount = 3 THEN 4
  ELSE IF lineCount = 2 THEN 3
  ELSE 2

\* twice the combo multiplier (1, 1.5, 2, 3), to stay in the integers
Multiplier2(lineCount) ==
  IF lineCount >= 4 THEN 6
  ELSE IF lineCount = 3 THEN 4
  ELSE IF lineCount = 2 THEN 3
  ELSE 2

\* Math.round of half2 / 2, for half2 >= 0
MathRoundHalves(half2) == (half2 + 1) \div 2

Points(lineCount) ==
  MathRoundHalves((lineCount * pxPerLine) * Multiplier2(lineCount))

\* updateScore with the threshold of the level below
updateScoreEarly(p, newScore) ==
  LET high == IF newScore > p.highScore THEN newScore ELSE p.highScore
      requiredScore == (p.level - 1) * LevelStep
  IN  [score |-> newScore,
       highScore |-> high,
       level |-> IF newScore >= requiredScore THEN p.level + 1 ELSE p.level,
       saved |-> newScore > p.highScore]

\* updateScore taking a score equal to the high score for a new high score
\* (>= for >)
updateScoreSaveEqual(p, newScore) ==
  LET high == IF newScore >= p.highScore THEN newScore ELSE p.highScore
      requiredScore == p.level * LevelStep
  IN  [score |-> newScore,
       highScore |-> high,
       level |-> IF newScore >= requiredScore THEN p.level + 1 ELSE p.level,
       saved |-> newScore >= p.highScore]

\* updateScore on the progression fields p = [score, highScore, level];
\* `saved` tells whether it called localStorage.setItem (568), which sits
\* in the branch that assigns highScore
updateScore(p, newScore) ==
  LET high == IF newScore > p.highScore THEN newScore ELSE p.highScore
      requiredScore == p.level * LevelStep
  IN  [score |-> newScore,
       highScore |-> high,
       level |-> IF newScore >= requiredScore THEN p.level + 1 ELSE p.level,
       saved |-> newScore > p.highScore]

\* updateLevel(lvl)
updateLevel(p, lvl) == [p EXCEPT !.level = lvl]

\* clearLines(rows, cols) on the core state b = [grid, score, highScore,
\* level, saved], the grid being the one placePiece has just filled and
\* saved telling whether localStorage.setItem has been called
clearLines(b, rows, cols) ==
  LET lineCount == Cardinality(rows) + Cardinality(cols)
      p == [score |-> b.score, highScore |-> b.highScore, level |-> b.level]
      q == updateScore(p, b.score + Points(lineCount))
  IN  [grid |-> ClearCells(b.grid, rows, cols),
       score |-> q.score, highScore |-> q.highScore, level |-> q.level,
       saved |-> q.saved]

checkForLines(b) ==
  LET rows == rowsToClear(b.grid)
      cols == colsToClear(b.grid)
  IN  IF Cardinality(rows) > 0 \/ Cardinality(cols) > 0
        THEN clearLines(b, rows, cols)
        ELSE b

placePiece(b, col, row, piece) ==
  checkForLines([b EXCEPT !.grid = FillCells(b.grid, col, row, piece)])

(***************************************************************************)
(* checkGameOver (529-555)                                                 *)
(***************************************************************************)
\* canPlaceAny asking every unused piece to fit
canPlaceEvery(g, pieces) ==
  \A i \in Slots :
     pieces[i] # NullPiece =>
       \E r \in Cells : \E c \in Cells : isValidPlacement(g, c, r, pieces[i])

\* canPlaceAny with the two anchor loops starting at 1
canPlaceAnyFrom1(g, pieces) ==
  \E i \in Slots :
     /\ pieces[i] # NullPiece
     /\ \E r \in Cells \ {0} : \E c \in Cells \ {0} :
           isValidPlacement(g, c, r, pieces[i])

canPlaceAny(g, pieces) ==
  \E i \in Slots :
     /\ pieces[i] # NullPiece
     /\ \E r \in Cells : \E c \in Cells : isValidPlacement(g, c, r, pieces[i])

\* TRUE iff checkGameOver calls triggerGameOver
checkGameOver(g, pieces) ==
  ~ canPlaceAny(g, pieces) /\ (\E i \in Slots : pieces[i] # NullPiece)

(***************************************************************************)
(* generateRandomPiece (214-267) and spawnPieces (192-212)                 *)
(***************************************************************************)
\* Math.floor(rand * n) for rand = k / 1000
FloorTimes(k, n) == (k * n) \div 1000

\* shapesPool opening the Complex pool one level early (lvl < 2)
shapesPoolFrom2(lvl, rand) ==
  IF lvl < 2
    THEN IF rand < 400 THEN SMALL_BLOCKS ELSE TETROMINOES
    ELSE IF rand < 200 THEN SMALL_BLOCKS
         ELSE IF rand < 800 THEN TETROMINOES
         ELSE COMPLEX_SHAPES

shapesPool(lvl, rand) ==
  IF lvl < 3
    THEN IF rand < 400 THEN SMALL_BLOCKS ELSE TETROMINOES
    ELSE IF rand < 200 THEN SMALL_BLOCKS
         ELSE IF rand < 800 THEN TETROMINOES
         ELSE COMPLEX_SHAPES

\* the three Math.random() results of one call, in the order of the calls
generateRandomPiece(lvl, rand, randShape, randColor) ==
  LET pool == shapesPool(lvl, rand)
  IN  [shape |-> pool[FloorTimes(randShape, Len(pool)) + 1],
       color |-> FloorTimes(randColor, NumColors) + 1]

\* the nine Math.random() results one spawnPieces consumes; the streams
\* sit on both sides of the thresholds 0.2, 0.4 and 0.8 and reach the
\* first and the last entry of every pool
RandomStreams ==
  { <<0, 0, 0,       399, 999, 999,   400, 0, 500>>,
    <<800, 0, 0,     999, 999, 170,   199, 500, 340>>,
    <<799, 200, 700, 200, 400, 850,   850, 300, 0>> }

\* spawnPieces generating one piece too few: the last slot stays empty
spawnPiecesTwo(lvl, s) ==
  [i \in Slots |->
     IF i = TraySize - 1 THEN NullPiece
     ELSE generateRandomPiece(lvl, s[3 * i + 1], s[3 * i + 2], s[3 * i + 3])]

spawnPieces(lvl, s) ==
  [i \in Slots |->
     generateRandomPiece(lvl, s[3 * i + 1], s[3 * i + 2], s[3 * i + 3])]

(***************************************************************************)
(* The input handlers                                                      *)
(***************************************************************************)
NoDrag == [active |-> FALSE, data |-> NullPiece, index |-> 0,
           detached |-> FALSE]

NoneUsed == [i \in Slots |-> FALSE]

\* what the handler of an input event did: the slot, anchor and piece it
\* worked on, the value isValidPlacement returned, the lines clearLines
\* cleared and the points it awarded, whether spawnPieces ran, whether
\* triggerGameOver ran and whether localStorage.setItem ran
Event(op, slot, row, col, piece, valid, rows, cols, points, spawned, fired, saved) ==
  [op |-> op, slot |-> slot, row |-> row, col |-> col, piece |-> piece,
   valid |-> valid, rows |-> rows, cols |-> cols, points |-> points,
   spawned |-> spawned, fired |-> fired, saved |-> saved]

Quiet(op, slot, piece, spawned, fired) ==
  Event(op, slot, 0, 0, piece, FALSE, {}, {}, 0, spawned, fired, FALSE)

\* triggerGameOver (557-560) removes the class 'hidden' from the modal
triggerGameOver(hidden) == FALSE

\* the modal after a checkGameOver that did or did not fire
ModalAfter(hidden, fired) == IF fired THEN triggerGameOver(hidden) ELSE hidden

\* mousedown / touchstart on the piece container of slot i (85-97)
onDown(i) ==
  /\ events < MaxEvents
  /\ ~ used[i]
  /\ draggedPiece' = [active |-> TRUE, data |-> activePieces[i],
                      index |-> i, detached |-> FALSE]
  /\ last' = Quiet("down", i, activePieces[i], FALSE, FALSE)
  /\ events' = events + 1
  /\ UNCHANGED <<grid, score, highScore, level, activePieces, used,
                 modalHidden>>

\* tryPlacePiece (381-396) on the core state b = [grid, score, highScore,
\* level, saved], at the anchor the release position rounds to
tryPlacePiece(b, col, row, piece) ==
  IF isValidPlacement(b.grid, col, row, piece)
    THEN [placed |-> TRUE, b |-> placePiece(b, col, row, piece)]
    ELSE [placed |-> FALSE, b |-> b]

\* TrayAfterRelease leaving the placed piece in its slot
TrayAfterReleaseNever(pieces, idx, placed) == pieces

\* TrayAfterRelease emptying the slot whether or not the piece was placed
TrayAfterReleaseAlways(pieces, idx, placed) ==
  [pieces EXCEPT ![idx] = NullPiece]

\* the tray after a release: the slot of a placed piece is emptied (164)
TrayAfterRelease(pieces, idx, placed) ==
  IF placed THEN [pieces EXCEPT ![idx] = NullPiece] ELSE pieces

\* EveryNull never seeing the tray empty: no refill
EveryNullNever(pieces) == FALSE

\* this.activePieces.every(p => p === null)
EveryNull(pieces) == \A i \in Slots : pieces[i] = NullPiece

\* the Math.random() results onUp consumes: those of one spawnPieces if
\* the release empties the tray, none otherwise
RefillStreams(g, col, row, drag, pieces) ==
  IF /\ isValidPlacement(g, col, row, drag.data)
     /\ EveryNull(TrayAfterRelease(pieces, drag.index, TRUE))
    THEN RandomStreams
    ELSE {<< >>}

\* mouseup / touchend with the dragged visual over anchor (row, col)
\* (154-181).  The mousemove handler in between (132-152) only draws the
\* preview and leaves the game state alone.
onUp(row, col) ==
  /\ events < MaxEvents
  /\ draggedPiece.active
  /\ \E s \in RefillStreams(grid, col, row, draggedPiece, activePieces) :
     \E try \in {tryPlacePiece([grid |-> grid, score |-> score,
                                highScore |-> highScore, level |-> level,
                                saved |-> FALSE],
                               col, row, draggedPiece.data)} :
       LET piece == draggedPiece.data
           idx == draggedPiece.index
           b == try.b
           rest == TrayAfterRelease(activePieces, idx, try.placed)
           refill == EveryNull(rest)
           tray == IF refill THEN spawnPieces(b.level, s) ELSE rest
           filled == FillCells(grid, col, row, piece)
       IN  IF try.placed
             THEN \E fired \in {checkGameOver(b.grid, tray)} :
                    /\ grid' = b.grid
                    /\ score' = b.score
                    /\ highScore' = b.highScore
                    /\ level' = b.level
                    /\ activePieces' = tray
                    /\ used' = IF refill THEN NoneUsed
                               ELSE IF draggedPiece.detached THEN used
                               ELSE [used EXCEPT ![idx] = TRUE]
                    /\ modalHidden' = ModalAfter(modalHidden, fired)
                    /\ last' = Event("up", idx, row, col, piece, TRUE,
                                     rowsToClear(filled), colsToClear(filled),
                                     b.score - score, refill, fired,
                                     b.saved)
             ELSE /\ grid' = b.grid
                  /\ score' = b.score
                  /\ highScore' = b.highScore
                  /\ level' = b.level
                  /\ activePieces' = rest
                  /\ last' = Event("up", idx, row, col, piece, FALSE,
                                   {}, {}, 0, FALSE, FALSE, b.saved)
                  /\ UNCHANGED <<used, modalHidden>>
  /\ draggedPiece' = NoDrag
  /\ events' = events + 1

\* click on rotate-cw / rotate-ccw (586-604)
rotateAllPieces(clockwise) ==
  /\ events < MaxEvents
  /\ LET rotated ==
           [i \in Slots |->
              IF activePieces[i] # NullPiece
                THEN [activePieces[i] EXCEPT
                        !.shape = RotateMatrix(activePieces[i].shape, clockwise)]
                ELSE activePieces[i]]
     IN  \E fired \in {checkGameOver(grid, rotated)} :
         /\ activePieces' = rotated
         \* the dragged piece is the very object held by its slot unless a
         \* restart has replaced the tray since the press
         /\ draggedPiece' =
              IF draggedPiece.active /\ ~ draggedPiece.detached
                THEN [draggedPiece EXCEPT !.data = rotated[draggedPiece.index]]
                ELSE draggedPiece
         /\ modalHidden' = ModalAfter(modalHidden, fired)
         /\ last' = Quiet(IF clockwise THEN "cw" ELSE "ccw", 0, NullPiece,
                          FALSE, fired)
  /\ events' = events + 1
  /\ UNCHANGED <<grid, score, highScore, level, used>>

\* click on restart-btn (38-49)
restartGame(s) ==
  /\ events < MaxEvents
  /\ LET p == updateLevel(updateScore([score |-> 0, highScore |-> highScore,
                                       level |-> 1], 0), 1)
         dealt == spawnPieces(p.level, s)
         fired == checkGameOver(EmptyGrid, dealt)
     IN  /\ grid' = EmptyGrid
         /\ score' = p.score
         /\ highScore' = p.highScore
         /\ level' = p.level
         /\ activePieces' = dealt
         /\ used' = NoneUsed
         \* the modal is hidden before spawnPieces checks for game over
         /\ modalHidden' = ModalAfter(TRUE, fired)
         /\ last' = [Quiet("restart", 0, NullPiece, TRUE, fired)
                       EXCEPT !.saved = p.saved]
  /\ draggedPiece' = IF draggedPiece.active
                       THEN [draggedPiece EXCEPT !.detached = TRUE]
                       ELSE draggedPiece
  /\ events' = events + 1

(***************************************************************************)
(* Initial states                                                          *)
(*                                                                         *)
(* Besides the state new Game() constructs, the exploration starts from    *)
(* mid-game states.  Each is computed from the constructed state by        *)
(* replaying a script of placements <<pool, index, color, row, col>>       *)
(* through the model's own isValidPlacement and placePiece, so it is a     *)
(* state the handlers reach: every step of a script is a valid placement   *)
(* (one that changes the board)                                            *)
(* of a pool shape in its pool orientation, a Complex shape only in a tray *)
(* dealt at level >= 3 (the tray is dealt anew after every third           *)
(* placement), and the tray left at the end has as many used slots as the  *)
(* script has placements since the last deal.                              *)
(***************************************************************************)
\* localStorage.getItem('blockBlastHighScore') || 0: 0 without an item,
\* else the item, the decimal string setItem wrote in an earlier session;
\* the one use of it, this.score > this.highScore, compares it as the
\* number it spells, which is the value kept here
StoredHighScores == {0, 700}

PoolNamed(name) ==
  CASE name = "S" -> SMALL_BLOCKS
    [] name = "T" -> TETROMINOES
    [] name = "C" -> COMPLEX_SHAPES

PieceOf(pool, idx, color) == [shape |-> PoolNamed(pool)[idx], color |-> color]

\* new Game(): the constructor and init()
Constructed(stored, s) ==
  LET p == updateLevel(updateScore([score |-> 0, highScore |-> stored,
                                    level |-> 1], 0), 1)
      dealt == spawnPieces(p.level, s)
  IN  [grid |-> EmptyGrid, score |-> p.score, highScore |-> p.highScore,
       level |-> p.level, activePieces |-> dealt,
       modalHidden |-> ~ checkGameOver(EmptyGrid, dealt)]

\* the placements script[i], script[i+1], ... as onUp performs them; st is
\* [grid, score, highScore, level, dealLevel, ok]
RECURSIVE Replay(_, _, _)
Replay(st, script, i) ==
  IF i > Len(script) THEN st
  ELSE LET mv == script[i]
           piece == PieceOf(mv[1], mv[2], mv[3])
           legal == /\ isValidPlacement(st.grid, mv[5], mv[4], piece)
                    /\ mv[1] = "C" => st.dealLevel >= 3
           b == placePiece([grid |-> st.grid, score |-> st.score,
                            highScore |-> st.highScore, level |-> st.level,
                            saved |-> FALSE],
                           mv[5], mv[4], piece)
       IN  IF ~ legal \/ b.grid = st.grid THEN [st EXCEPT !.ok = FALSE]
           ELSE Replay([grid |-> b.grid, score |-> b.score,
                        highScore |-> b.highScore, level |-> b.level,
                        dealLevel |-> IF i % TraySize = 0 THEN b.level
                                      ELSE st.dealLevel,
                        ok |-> st.ok],
                       script, i + 1)

\* the state after the script, with `tray` (pool pieces, <<pool, index,
\* color>>, or << >> for a used slot) left in the tray
Snapshot(stored, script, tray) ==
  LET st == Replay([grid |-> EmptyGrid, score |-> 0, highScore |-> stored,
                    level |-> 1, dealLevel |-> 1, ok |-> TRUE], script, 1)
      pieces == [i \in Slots |->
                   IF tray[i + 1] = << >> THEN NullPiece
                   ELSE PieceOf(tray[i + 1][1], tray[i + 1][2], tray[i + 1][3])]
      usedSlots == {i \in Slots : tray[i + 1] = << >>}
      ok == /\ st.ok
            /\ Cardinality(usedSlots) = Len(script) % TraySize
            /\ \A i \in Slots \ usedSlots :
                  tray[i + 1][1] = "C" => st.dealLevel >= 3
  IN  [grid |-> st.grid, score |-> st.score, highScore |-> st.highScore,
       level |-> st.level, activePieces |-> pieces,
       used |-> [i \in Slots |-> i \in usedSlots],
       modalHidden |-> ~ checkGameOver(st.grid, pieces), ok |-> ok]

\* rows 0,1 lack columns 0,1 and columns 0,1 lack rows 0,1: the O at (0,0)
\* completes two rows and two columns
\*   ..######
\*   ..######
\*   ##......
\*   ##......
\*   ##......
\*   ##...#..
\*   ##......
\*   ##......
\*   score 0 level 1 high 0 placements 9 deal level 1
ScriptCorner ==
  << <<"T", 1, 1, 0, 2>>, <<"S", 2, 3, 0, 6>>, <<"T", 1, 2, 1, 2>>,
     <<"S", 2, 3, 1, 6>>, <<"T", 2, 4, 2, 0>>, <<"S", 3, 6, 6, 0>>,
     <<"T", 2, 5, 2, 1>>, <<"S", 3, 6, 6, 1>>, <<"S", 1, 2, 5, 5>> >>

\* after the four-line clear of the corner board (1200 points, level 2):
\* rows 0,1 lack column 0 and column 0 lacks rows 0,1
\*   .#######
\*   .#######
\*   #.......
\*   #.......
\*   #.......
\*   #.......
\*   #.......
\*   #.......
\*   score 1200 level 2 high 1200 placements 17 deal level 2
ScriptEdge ==
  << <<"T", 1, 1, 0, 2>>, <<"S", 2, 3, 0, 6>>, <<"T", 1, 2, 1, 2>>,
     <<"S", 2, 3, 1, 6>>, <<"T", 2, 4, 2, 0>>, <<"S", 3, 6, 6, 0>>,
     <<"T", 2, 5, 2, 1>>, <<"S", 3, 6, 6, 1>>, <<"T", 3, 1, 0, 0>>,
     <<"T", 1, 1, 0, 1>>, <<"S", 2, 3, 0, 5>>, <<"S", 1, 4, 0, 7>>,
     <<"T", 1, 2, 1, 1>>, <<"S", 2, 3, 1, 5>>, <<"S", 1, 4, 1, 7>>,
     <<"T", 2, 5, 2, 0>>, <<"S", 3, 6, 6, 0>> >>

\* after 1200 + 100 points (level 3): the Large L at (0,0) completes rows
\* 0..2 and columns 0..2
\*   .#######
\*   .#######
\*   ...#####
\*   ###.....
\*   ###.....
\*   ###.....
\*   ###.....
\*   ###.....
\*   score 1300 level 3 high 1300 placements 22 deal level 3
ScriptBigL ==
  << <<"T", 1, 1, 0, 2>>, <<"S", 2, 3, 0, 6>>, <<"T", 1, 2, 1, 2>>,
     <<"S", 2, 3, 1, 6>>, <<"T", 2, 4, 2, 0>>, <<"S", 3, 6, 6, 0>>,
     <<"T", 2, 5, 2, 1>>, <<"S", 3, 6, 6, 1>>, <<"T", 3, 1, 0, 0>>,
     <<"T", 1, 2, 0, 0>>, <<"T", 1, 3, 0, 4>>, <<"T", 1, 1, 0, 1>>,
     <<"S", 2, 2, 0, 5>>, <<"S", 3, 3, 0, 7>>, <<"T", 1, 4, 1, 1>>,
     <<"S", 2, 5, 1, 5>>, <<"T", 1, 6, 2, 3>>, <<"S", 1, 1, 2, 7>>,
     <<"S", 2, 2, 7, 0>>, <<"S", 1, 3, 7, 2>>, <<"C", 1, 4, 3, 0>>,
     <<"C", 1, 5, 5, 0>> >>

\* one hole per row and column at (i, 3i mod 8), and the hole (1,0) below
\* (0,0): no two holes side by side
\*   .#######
\*   .##.####
\*   ######.#
\*   #.######
\*   ####.###
\*   #######.
\*   ##.#####
\*   #####.##
\*   score 0 level 1 high 0 placements 24 deal level 1
ScriptHoles ==
  << <<"T", 1, 1, 0, 1>>, <<"S", 1, 2, 0, 5>>, <<"S", 1, 3, 0, 6>>,
     <<"S", 1, 4, 0, 7>>, <<"S", 2, 5, 1, 1>>, <<"T", 1, 6, 1, 4>>,
     <<"T", 1, 1, 2, 0>>, <<"S", 2, 2, 2, 4>>, <<"S", 1, 3, 2, 7>>,
     <<"S", 1, 4, 3, 0>>, <<"T", 1, 5, 3, 2>>, <<"S", 2, 6, 3, 6>>,
     <<"T", 1, 1, 4, 0>>, <<"S", 2, 2, 4, 5>>, <<"S", 1, 3, 4, 7>>,
     <<"T", 1, 4, 5, 0>>, <<"S", 2, 5, 5, 4>>, <<"S", 1, 6, 5, 6>>,
     <<"S", 2, 1, 6, 0>>, <<"T", 1, 2, 6, 3>>, <<"S", 1, 3, 6, 7>>,
     <<"T", 1, 4, 7, 0>>, <<"S", 1, 5, 7, 4>>, <<"S", 2, 6, 7, 6>> >>

\* the same board reached in 23 placements
\*   .#######
\*   .##.####
\*   ######.#
\*   #.######
\*   ####.###
\*   #######.
\*   ##.#####
\*   #####.##
\*   score 0 level 1 high 0 placements 23 deal level 1
ScriptHoles2 ==
  << <<"T", 1, 1, 0, 1>>, <<"S", 2, 2, 0, 5>>, <<"S", 1, 3, 0, 7>>,
     <<"S", 2, 4, 1, 1>>, <<"T", 1, 5, 1, 4>>, <<"T", 1, 6, 2, 0>>,
     <<"S", 2, 1, 2, 4>>, <<"S", 1, 2, 2, 7>>, <<"S", 1, 3, 3, 0>>,
     <<"T", 1, 4, 3, 2>>, <<"S", 2, 5, 3, 6>>, <<"T", 1, 6, 4, 0>>,
     <<"S", 2, 1, 4, 5>>, <<"S", 1, 2, 4, 7>>, <<"T", 1, 3, 5, 0>>,
     <<"S", 2, 4, 5, 4>>, <<"S", 1, 5, 5, 6>>, <<"S", 2, 6, 6, 0>>,
     <<"T", 1, 1, 6, 3>>, <<"S", 1, 2, 6, 7>>, <<"T", 1, 3, 7, 0>>,
     <<"S", 1, 4, 7, 4>>, <<"S", 2, 5, 7, 6>> >>

\* the state after a press on slot i of a new game, a restart, and the
\* release at (row, col) of the piece the press picked up: the piece of
\* the tray before the restart is on the board, slot i of the tray dealt
\* by the restart is null, and the container of that slot, created by the
\* restart, is not marked used (the mark went to the container the press
\* was on, which the restart removed)
StaleRelease(stored, s1, i, s2, row, col) ==
  LET first == Constructed(stored, s1)
      piece == first.activePieces[i]
      p == updateLevel(updateScore([score |-> 0,
                                    highScore |-> first.highScore,
                                    level |-> 1], 0), 1)
      dealt == spawnPieces(p.level, s2)
      try == tryPlacePiece([grid |-> EmptyGrid, score |-> p.score,
                            highScore |-> p.highScore, level |-> p.level,
                            saved |-> FALSE],
                           col, row, piece)
      tray == TrayAfterRelease(dealt, i, try.placed)
  IN  [grid |-> try.b.grid, score |-> try.b.score,
       highScore |-> try.b.highScore, level |-> try.b.level,
       activePieces |-> tray, used |-> NoneUsed,
       modalHidden |-> ~ checkGameOver(try.b.grid, tray),
       ok |-> /\ {s1, s2} \subseteq RandomStreams
              /\ try.placed
              /\ ~ EveryNull(tray)]

Snapshots ==
  { StaleRelease(0, <<799, 200, 700, 200, 400, 850, 850, 300, 0>>, 0,
                 <<0, 0, 0, 399, 999, 999, 400, 0, 500>>, 2, 3),
    Snapshot(700, ScriptCorner,
             << <<"T", 3, 1>>, <<"S", 2, 2>>, <<"S", 3, 3>> >>),
    Snapshot(5000, ScriptEdge,
             << << >>, << >>, <<"S", 3, 4>> >>),
    Snapshot(0, ScriptBigL,
             << << >>, <<"C", 3, 5>>, <<"S", 1, 6>> >>),
    Snapshot(0, ScriptHoles,
             << <<"S", 1, 1>>, <<"S", 2, 2>>, <<"T", 1, 3>> >>),
    Snapshot(0, ScriptHoles2,
             << << >>, << >>, <<"S", 1, 4>> >>) }

InitialStates ==
  {Constructed(stored, s) :
      stored \in StoredHighScores, s \in RandomStreams}

Init ==
  /\ \/ \E st \in InitialStates :
          /\ grid = st.grid
          /\ score = st.score
          /\ highScore = st.highScore
          /\ level = st.level
          /\ activePieces = st.activePieces
          /\ used = NoneUsed
          /\ modalHidden = st.modalHidden
     \/ \E st \in Snapshots :
          /\ st.ok
          /\ grid = st.grid
          /\ score = st.score
          /\ highScore = st.highScore
          /\ level = st.level
          /\ activePieces = st.activePieces
          /\ used = st.used
          /\ modalHidden = st.modalHidden
  /\ draggedPiece = NoDrag
  /\ last = Quiet("init", 0, NullPiece, TRUE, FALSE)
  /\ events = 0

Next ==
  \/ \E i \in Slots : onDown(i)
  \/ \E row \in Anchors : \E col \in Anchors : onUp(row, col)
  \/ \E clockwise \in BOOLEAN : rotateAllPieces(clockwise)
  \/ \E s \in RandomStreams : restartGame(s)

Spec == Init /\ [][Next]_vars

(***************************************************************************)
(* rotateMatrix on its own: the exploration starts from trays that hold    *)
(* every shape of the three pools in its pool orientation (three           *)
(* neighbours of the list of all shapes at a time) over the empty board,   *)
(* and clicks the two rotate buttons.                                      *)
(***************************************************************************)
AllShapes == SMALL_BLOCKS \o TETROMINOES \o COMPLEX_SHAPES

TrayFrom(k) ==
  [i \in Slots |->
     [shape |-> AllShapes[((k - 1 + i) % Len(AllShapes)) + 1],
      color |-> i + 1]]

InitRotate ==
  /\ \E k \in 1 .. Len(AllShapes) : activePieces = TrayFrom(k)
  /\ grid = EmptyGrid
  /\ score = 0
  /\ highScore = 0
  /\ level = 1
  /\ used = NoneUsed
  /\ modalHidden = TRUE
  /\ draggedPiece = NoDrag
  /\ last = Quiet("init", 0, NullPiece, TRUE, FALSE)
  /\ events = 0

NextRotate == \E clockwise \in BOOLEAN : rotateAllPieces(clockwise)

SpecRotate == InitRotate /\ [][NextRotate]_vars

(***************************************************************************)
(* The rules as the specification words them, for the statements below    *)
(***************************************************************************)
\* the board cells the occupied cells of a piece map to at an anchor
Footprint(piece, row, col) ==
  {<<row + rc[1], col + rc[2]>> : rc \in Occupied(piece.shape)}

\* every occupied cell maps to a cell on the board that is empty
Fits(g, piece, row, col) ==
  /\ piece # NullPiece
  /\ \A t \in Footprint(piece, row, col) :
        /\ t[1] \in Cells
        /\ t[2] \in Cells
        /\ g[t[1]][t[2]] = NULL

\* the board right after the fill and before any clearing
Filled(g, piece, row, col) ==
  [r \in Cells |->
     [c \in Cells |->
        IF <<r, c>> \in Footprint(piece, row, col) THEN piece.color
        ELSE g[r][c]]]

FullRows(g) == {r \in Cells : \A c \in Cells : g[r][c] # NULL}

FullColumns(g) == {c \in Cells : \A r \in Cells : g[r][c] # NULL}

LinePoints(lineCount) ==
  CASE lineCount = 1 -> 100
    [] lineCount = 2 -> 300
    [] lineCount = 3 -> 600
    [] lineCount >= 4 -> 300 * lineCount

\* some slot holds an unused piece and no unused piece fits at any anchor
\* of the board
NothingFits(g, pieces) ==
  /\ \E i \in Slots : pieces[i] # NullPiece
  /\ \A i \in Slots : \A r \in Cells : \A c \in Cells :
        ~ Fits(g, pieces[i], r, c)

\* the step is a release that placed its piece
Placed == last'.op = "up" /\ last'.valid

\* a matrix rotated n times in one direction
RECURSIVE RotatedTimes(_, _, _)
RotatedTimes(m, clockwise, n) ==
  IF n = 0 THEN m
  ELSE RotatedTimes(RotateMatrix(m, clockwise), clockwise, n - 1)

\* two shape matrices are equal: same dimensions, same occupied cells
SameShape(a, b) ==
  /\ NumRows(a) = NumRows(b)
  /\ NumCols(a) = NumCols(b)
  /\ Occupied(a) = Occupied(b)
  /\ \A r \in 0 .. (NumRows(a) - 1) : \A c \in 0 .. (NumCols(a) - 1) :
        Cell(a, r, c) = Cell(b, r, c)

\* the slot holds the "already used" marker: its piece is gone, or its
\* container is marked used
SlotUsed(pieces, u, i) == pieces[i] = NullPiece \/ u[i]

\* `new` is `old` turned a quarter: R x C becomes C x R, clockwise
\* (r, c) -> (c, R - 1 - r), counter-clockwise (r, c) -> (C - 1 - c, r)
QuarterTurn(old, new, clockwise) ==
  LET R == NumRows(old)
      C == NumCols(old)
  IN  /\ NumRows(new) = C
      /\ NumCols(new) = R
      /\ \A r \in 0 .. (R - 1) : \A c \in 0 .. (C - 1) :
            IF clockwise
              THEN Cell(new, c, R - 1 - r) = Cell(old, r, c)
              ELSE Cell(new, C - 1 - c, r) = Cell(old, r, c)

Max(a, b) == IF a >= b THEN a ELSE b

\* every pool shape in each of its four orientations
PoolOrientations ==
  {RotatedTimes(AllShapes[k], TRUE, n) : k \in 1 .. Len(AllShapes), n \in 0 .. 3}

\* the first row and the first column of the matrix hold an occupied cell
TouchesTopLeft(m) ==
  /\ \E c \in 0 .. (NumCols(m) - 1) : Cell(m, 0, c) = 1
  /\ \E r \in 0 .. (NumRows(m) - 1) : Cell(m, r, 0) = 1

AllOrientationsTouchTopLeft == \A m \in PoolOrientations : TouchesTopLeft(m)

\* the anchors at which some cell of the matrix of the piece is on the
\* board, and one more on every side: at any other integer anchor the whole
\* matrix is off the board
AnchorRows(piece) == (0 - NumRows(piece.shape)) .. GRID_SIZE

AnchorCols(piece) == (0 - NumCols(piece.shape)) .. GRID_SIZE

\* the number of filled cells of a board
FilledCount(g) ==
  Cardinality({rc \in Cells \X Cells : g[rc[1]][rc[2]] # NULL})

\* the shapes of a pool, in their pool orientation
ShapesOf(pool) == {pool[k] : k \in 1 .. Len(pool)}

Colors == 1 .. NumColors

\* a piece the level-1 policy generates: Small or Tetromino, any color
Level1Piece(piece) ==
  /\ piece.shape \in ShapesOf(SMALL_BLOCKS) \cup ShapesOf(TETROMINOES)
  /\ piece.color \in Colors

(***************************************************************************)
(* C1.  isValidPlacement, asked by a release about any piece at any        *)
(* anchor (negative and off-board anchors included), returns without       *)
(* fault, reads no grid cell off the board, and answers true exactly when  *)
(* every occupied cell of the piece maps to an empty cell on the board; a  *)
(* null piece is always invalid.                                           *)
(***************************************************************************)
C1_ValidatorExact ==
  [][last'.op = "up" =>
       /\ last'.valid = isValidPlacement(grid, last'.col, last'.row, last'.piece)
       /\ \A piece \in {last'.piece, NullPiece} :
             LET run == ValidPlacementRun(grid, last'.col, last'.row, piece)
             IN  /\ ~ run.fault
                 /\ ~ run.outside
                 /\ run.value <=> Fits(grid, piece, last'.row, last'.col)
       /\ ~ isValidPlacement(grid, last'.col, last'.row, NullPiece)]_vars

\* a release with the whole piece off the board, at a negative column
C1_Witness ==
  /\ last.op = "up"
  /\ ~ last.valid
  /\ last.row = GRID_SIZE
  /\ last.col < 0

(***************************************************************************)
(* C2.  A filled cell is never overwritten: a placement writes only cells  *)
(* that are empty when it writes, and no step turns a cell from one color  *)
(* into another.                                                           *)
(***************************************************************************)
C2_NoOverwrite ==
  [][/\ \A r \in Cells : \A c \in Cells :
          (grid[r][c] # NULL /\ grid'[r][c] # NULL) => grid'[r][c] = grid[r][c]
     /\ Placed =>
          \A t \in Footprint(last'.piece, last'.row, last'.col) :
             t[1] \in Cells /\ t[2] \in Cells /\ grid[t[1]][t[2]] = NULL]_vars

\* a piece placed, without a clear, on a board that holds other cells
C2_Witness ==
  /\ last.op = "up"
  /\ last.valid
  /\ last.rows = {} /\ last.cols = {}
  /\ \E r \in Cells : \E c \in Cells :
        grid[r][c] # NULL /\ <<r, c>> \notin Footprint(last.piece, last.row, last.col)

(***************************************************************************)
(* C3.  A release that fails validation changes nothing: board, tray,      *)
(* score, level, high score and the game-over modal stay as they were, no  *)
(* refill and no game-over check happens.                                  *)
(***************************************************************************)
C3_RejectedChangesNothing ==
  [][(last'.op = "up" /\ ~ Fits(grid, last'.piece, last'.row, last'.col)) =>
       /\ UNCHANGED <<grid, activePieces, used, score, level, highScore,
                      modalHidden>>
       /\ ~ last'.valid
       /\ ~ last'.spawned
       /\ ~ last'.fired]_vars

\* a release over a filled cell of the board, rejected
C3_Witness ==
  /\ last.op = "up"
  /\ ~ last.valid
  /\ last.piece # NullPiece
  /\ \E t \in Footprint(last.piece, last.row, last.col) :
        t[1] \in Cells /\ t[2] \in Cells /\ grid[t[1]][t[2]] # NULL

(***************************************************************************)
(* C4.  With R full rows and C full columns on the board right after the   *)
(* fill, the clear empties exactly the cells of those rows and columns     *)
(* (8R + 8C - R*C cells) and every other cell keeps its value.             *)
(***************************************************************************)
C4_ClearExactlyUnion ==
  [][Placed =>
       \A f \in {Filled(grid, last'.piece, last'.row, last'.col)} :
       \A R \in {FullRows(f)} : \A C \in {FullColumns(f)} :
       \A U \in {{rc \in Cells \X Cells : rc[1] \in R \/ rc[2] \in C}} :
          /\ \A r \in Cells : \A c \in Cells :
                grid'[r][c] = IF <<r, c>> \in U THEN NULL ELSE f[r][c]
          /\ Cardinality(U) = GRID_SIZE * Cardinality(R)
                              + GRID_SIZE * Cardinality(C)
                              - Cardinality(R) * Cardinality(C)
          /\ last'.rows = R
          /\ last'.cols = C]_vars

\* a placement that completed rows and columns at once
C4_Witness ==
  /\ last.op = "up"
  /\ last.valid
  /\ last.rows # {}
  /\ last.cols # {}

(***************************************************************************)
(* C5.  A placement completing lineCount >= 1 lines (rows and columns      *)
(* counted separately) adds exactly 100, 300, 600 points for 1, 2, 3 lines *)
(* and 300 * lineCount points for 4 lines or more.                         *)
(***************************************************************************)
C5_ComboPoints ==
  [][Placed =>
       LET f == Filled(grid, last'.piece, last'.row, last'.col)
           lineCount == Cardinality(FullRows(f)) + Cardinality(FullColumns(f))
       IN  lineCount >= 1 =>
             /\ score' = score + LinePoints(lineCount)
             /\ last'.points = LinePoints(lineCount)]_vars

\* two rows and one column completed by one placement: 600 points
C5_Witness ==
  /\ last.op = "up"
  /\ last.valid
  /\ Cardinality(last.rows) = 2
  /\ Cardinality(last.cols) = 1
  /\ last.points = 600

(***************************************************************************)
(* C6.  After every successful placement (with its refill), rotation and   *)
(* restart, game over is declared exactly when some slot holds an unused   *)
(* piece and no unused piece fits at any of the 64 anchors of the board as *)
(* it stands after the clear.                                              *)
(***************************************************************************)
C6_GameOverIffNothingFits ==
  (\/ last.op \in {"cw", "ccw", "restart"}
   \/ (last.op = "up" /\ last.valid))
  => (last.fired <=> NothingFits(grid, activePieces))

\* game over declared by the placement that refilled the tray
C6_Witness ==
  /\ last.op = "up"
  /\ last.valid
  /\ last.spawned
  /\ last.fired

(***************************************************************************)
(* C7.  Game over is terminal: once declared, board, tray, score and level *)
(* change under no placement attempt or rotation until restart.            *)
(***************************************************************************)
C7_GameOverTerminal ==
  [][(~ modalHidden /\ last'.op # "restart") =>
       UNCHANGED <<grid, activePieces, score, level>>]_vars

(***************************************************************************)
(* C8.  Between two restarts game over is declared once: after it has been *)
(* declared no placement attempt and no rotation declares it again.        *)
(***************************************************************************)
C8_GameOverFiresOnce ==
  [][(~ modalHidden /\ last'.op # "restart") => ~ last'.fired]_vars

(***************************************************************************)
(* C9.  After every score update the level is settled:                     *)
(* score < level * 500.                                                    *)
(***************************************************************************)
C9_LevelSettled ==
  [][score' # score => score' < level' * LevelStep]_vars

(***************************************************************************)
(* C10.  Within one game the score never decreases, the level never        *)
(* decreases, and score >= (level - 1) * 500 in every state; only restart  *)
(* resets them.                                                            *)
(***************************************************************************)
C10_Monotone ==
  /\ [](score >= (level - 1) * LevelStep)
  /\ [][last'.op # "restart" => (score' >= score /\ level' >= level)]_vars

\* a clear that took the game to level 4
C10_Witness ==
  /\ last.op = "up"
  /\ last.points > 0
  /\ level = 4

(***************************************************************************)
(* C11.  Restart, from any state, leaves score 0, level 1, all 64 cells    *)
(* empty, the game-over modal hidden, and a tray of exactly 3 newly        *)
(* generated unused pieces of the level-1 policy (Small or Tetromino).     *)
(***************************************************************************)
C11_RestartResets ==
  [][last'.op = "restart" =>
       /\ score' = 0
       /\ level' = 1
       /\ \A r \in Cells : \A c \in Cells : grid'[r][c] = NULL
       /\ modalHidden'
       /\ ~ last'.fired
       /\ last'.spawned
       /\ DOMAIN activePieces' = Slots
       /\ \A i \in Slots :
             /\ activePieces'[i] # NullPiece
             /\ Level1Piece(activePieces'[i])
             /\ ~ used'[i]]_vars

\* a restart in the middle of a drag, from a game at level 2 or more whose
\* score had passed 1200
C11_Witness ==
  /\ last.op = "restart"
  /\ highScore >= 1200
  /\ draggedPiece.active

(***************************************************************************)
(* C12.  In every state between input events the tray has exactly 3 slots  *)
(* and at least one of them holds an unused piece: the placement that uses *)
(* up the last piece of the tray refills all three slots with new unused   *)
(* pieces within the same step, and the game-over check of that step runs  *)
(* on the refilled tray.                                                   *)
(***************************************************************************)
C12_TrayNeverAllUsed ==
  /\ [](/\ DOMAIN activePieces = Slots
        /\ DOMAIN used = Slots
        /\ \E i \in Slots : activePieces[i] # NullPiece /\ ~ used[i])
  /\ [][(Placed /\ \A j \in Slots \ {last'.slot} : activePieces[j] = NullPiece)
          => /\ last'.spawned
             /\ \A j \in Slots : activePieces'[j] # NullPiece /\ ~ used'[j]
             /\ last'.fired <=> NothingFits(grid', activePieces')]_vars

\* the last piece of a tray placed, the tray refilled, the game going on
C12_Witness ==
  /\ last.op = "up"
  /\ last.valid
  /\ last.spawned
  /\ ~ last.fired

(***************************************************************************)
(* C13.  A successful placement that completes no row and no column        *)
(* changes the board only by filling the piece's occupied cells with its   *)
(* color (the count of filled cells grows by the piece's cell count) and   *)
(* leaves score, level and high score unchanged.                           *)
(***************************************************************************)
C13_NoLineNoScore ==
  [][Placed =>
       \A f \in {Filled(grid, last'.piece, last'.row, last'.col)} :
          (FullRows(f) = {} /\ FullColumns(f) = {}) =>
             /\ grid' = f
             /\ FilledCount(grid') =
                   FilledCount(grid) + Cardinality(Occupied(last'.piece.shape))
             /\ UNCHANGED <<score, level, highScore>>
             /\ last'.points = 0]_vars

\* a piece placed without completing a line, in a game with points scored
C13_Witness ==
  /\ last.op = "up"
  /\ last.valid
  /\ last.rows = {}
  /\ last.cols = {}
  /\ last.points = 0
  /\ score > 0

(***************************************************************************)
(* C14.  Rotating a shape 4 times clockwise, or 4 times counter-clockwise, *)
(* gives back the shape: same dimensions, same occupied cells.  It holds   *)
(* for every shape of the three pools and every orientation of it the      *)
(* rotate buttons produce; and what a click of a rotate button leaves in   *)
(* the tray is back at the shape before the click after three more         *)
(* rotations in the same direction.                                        *)
(***************************************************************************)
C14_FourRotationsIdentity ==
  /\ [](\A i \in Slots : \A clockwise \in BOOLEAN :
          activePieces[i] # NullPiece =>
            SameShape(RotatedTimes(activePieces[i].shape, clockwise, 4),
                      activePieces[i].shape))
  /\ [][last'.op \in {"cw", "ccw"} =>
          \A i \in Slots :
             activePieces[i] # NullPiece =>
               SameShape(RotatedTimes(activePieces'[i].shape,
                                      last'.op = "cw", 3),
                         activePieces[i].shape)]_vars

\* a tray whose two T tetrominoes stand three quarter turns clockwise from
\* their pool orientation, after a clockwise click
C14_Witness ==
  /\ last.op = "cw"
  /\ activePieces[0].shape = RotatedTimes(TETROMINOES[4], TRUE, 3)
  /\ activePieces[1].shape = RotatedTimes(TETROMINOES[5], TRUE, 3)
  /\ activePieces[0].shape # TETROMINOES[4]

(***************************************************************************)
(* C15.  Every piece generated while level < 3 has a Small or Tetromino    *)
(* shape; a Complex shape is generated only at level >= 3, the level being *)
(* the one in force when the piece is generated: after the scoring of the  *)
(* placement that emptied the tray for a refill, 1 for a restart.  So no   *)
(* tray ever holds a piece of five or more cells (3x2 block, U, L, J, in   *)
(* any orientation) below level 3.                                         *)
(***************************************************************************)
C15_ComplexFromLevel3 ==
  /\ [](\A i \in Slots :
          (/\ activePieces[i] # NullPiece
           /\ Cardinality(Occupied(activePieces[i].shape)) >= 5) => level >= 3)
  /\ [][last'.spawned =>
          \A i \in Slots :
             /\ activePieces'[i].color \in Colors
             /\ activePieces'[i].shape \in
                   ShapesOf(SMALL_BLOCKS) \cup ShapesOf(TETROMINOES)
                   \cup ShapesOf(COMPLEX_SHAPES)
             /\ activePieces'[i].shape \in ShapesOf(COMPLEX_SHAPES) =>
                   (level' >= 3 /\ last'.op # "restart")]_vars

\* a refill that dealt a Complex shape in the step that scored the points
\* taking the game to level 3
C15_Witness ==
  /\ last.op = "up"
  /\ last.spawned
  /\ last.points > 0
  /\ level = 3
  /\ score < 4 * LevelStep
  /\ \E i \in Slots : activePieces[i].shape \in ShapesOf(COMPLEX_SHAPES)

(***************************************************************************)
(* C16.  A placement attempt on a tray slot that is used is rejected with  *)
(* board, tray, score and level unchanged: no press on a container marked  *)
(* used starts a drag, and a release whose slot is used places nothing.    *)
(* So a piece is placed at most once (the placement takes it out of the    *)
(* tray and ends the drag), and a used slot stays used until the next      *)
(* refill or restart.                                                      *)
(***************************************************************************)
C16_UsedSlotRejected ==
  /\ [](\A i \in Slots : used[i] => activePieces[i] = NullPiece)
  /\ [][/\ last'.op = "down" =>
             (~ used[last'.slot] /\ UNCHANGED <<grid, activePieces, score, level>>)
        /\ (last'.op = "up" /\ SlotUsed(activePieces, used, last'.slot)) =>
             /\ ~ last'.valid
             /\ UNCHANGED <<grid, activePieces, used, score, level, highScore,
                            modalHidden>>
        /\ Placed =>
             /\ ~ SlotUsed(activePieces, used, last'.slot)
             /\ draggedPiece' = NoDrag
             /\ (last'.spawned \/ activePieces'[last'.slot] = NullPiece)
        /\ \A i \in Slots :
             (SlotUsed(activePieces, used, i)
              /\ ~ SlotUsed(activePieces', used', i)) => last'.spawned]_vars

\* a drag started on a slot whose piece is gone, released over free cells
\* of the board and rejected
C16_Witness ==
  /\ last.op = "up"
  /\ ~ last.valid
  /\ last.piece = NullPiece
  /\ activePieces[last.slot] = NullPiece
  /\ last.row \in Cells
  /\ last.col \in Cells
  /\ grid[last.row][last.col] = NULL

(***************************************************************************)
(* C17.  A rotation replaces the shape of every unused tray piece by its   *)
(* quarter turn and changes nothing else: each piece keeps its color and   *)
(* its number of occupied cells, used slots stay used, board, score, level *)
(* and high score are untouched; and the pieces are rotated whether or not *)
(* they fit on the board afterwards.                                       *)
(***************************************************************************)
C17_RotationFrame ==
  [][last'.op \in {"cw", "ccw"} =>
       /\ \A i \in Slots :
             IF activePieces[i] = NullPiece
               THEN activePieces'[i] = NullPiece
               ELSE /\ activePieces'[i] # NullPiece
                    /\ QuarterTurn(activePieces[i].shape,
                                   activePieces'[i].shape, last'.op = "cw")
                    /\ activePieces'[i].color = activePieces[i].color
                    /\ Cardinality(Occupied(activePieces'[i].shape)) =
                          Cardinality(Occupied(activePieces[i].shape))
       /\ UNCHANGED <<grid, score, level, highScore, used>>]_vars

\* a counter-clockwise rotation of a tray with a used slot and a piece
\* that is not square, after which no piece fits
C17_Witness ==
  /\ last.op = "ccw"
  /\ last.fired
  /\ \E i \in Slots : used[i]
  /\ \E i \in Slots :
        /\ activePieces[i] # NullPiece
        /\ NumRows(activePieces[i].shape) > NumCols(activePieces[i].shape)

(***************************************************************************)
(* C18.  Whenever a release turns a tray slot from holding a piece to      *)
(* used, the cells filled on the board in that step are exactly the        *)
(* occupied cells of the piece the slot held at that moment (its current   *)
(* shape, at the release anchor, in its color); the board after the step   *)
(* is the board so filled, with its full lines cleared.                    *)
(***************************************************************************)
C18_SlotPieceIsPlaced ==
  [][(Placed /\ activePieces[last'.slot] # NullPiece) =>
       \A f \in {Filled(grid, activePieces[last'.slot], last'.row, last'.col)} :
       \A R \in {FullRows(f)} : \A C \in {FullColumns(f)} :
          \A r \in Cells : \A c \in Cells :
             grid'[r][c] = IF r \in R \/ c \in C THEN NULL ELSE f[r][c]]_vars

(***************************************************************************)
(* C19.  In every state between input events no row and no column of the   *)
(* board has all 8 cells filled: the lines a placement completes are       *)
(* cleared within that placement, and the clear leaves no full line.       *)
(***************************************************************************)
C19_NoFullLine ==
  /\ FullRows(grid) = {}
  /\ FullColumns(grid) = {}

\* a placement that completed columns only, on a board that is not empty
\* after the clear
C19_Witness ==
  /\ last.op = "up"
  /\ last.valid
  /\ last.rows = {}
  /\ last.cols # {}
  /\ FilledCount(grid) > 0

(***************************************************************************)
(* C20.  The high score is the maximum of the previous high score and the  *)
(* score: highScore >= score in every state, no placement, rotation or     *)
(* restart lowers it (a restart leaves it as it is), and the new high      *)
(* score is saved (localStorage.setItem) exactly in the steps whose new    *)
(* score is above the high score known before.                             *)
(***************************************************************************)
C20_HighScoreIsMax ==
  /\ [](highScore >= score)
  /\ [][/\ highScore' = Max(highScore, score')
        /\ highScore' >= highScore
        /\ last'.op = "restart" => highScore' = highScore
        /\ last'.saved <=> score' > highScore]_vars

\* a clear that took the score above the high score known before
C20_Witness ==
  /\ last.op = "up"
  /\ last.saved
  /\ highScore = score
  /\ last.points > 0

(***************************************************************************)
(* C21.  The game-over search over the anchors [0,8) x [0,8) is complete:  *)
(* when checkGameOver finds no fit, no unused piece of the tray, in its    *)
(* current orientation, fits at any integer anchor, negative rows and      *)
(* columns included.  Every tray shape is a pool shape in one of its four  *)
(* orientations, and each of these has an occupied cell in its first row   *)
(* and in its first column.                                                *)
(***************************************************************************)
C21_SearchComplete ==
  /\ AllOrientationsTouchTopLeft
  /\ \A i \in Slots :
        activePieces[i] # NullPiece =>
          /\ activePieces[i].shape \in PoolOrientations
          /\ TouchesTopLeft(activePieces[i].shape)
  /\ last.fired =>
        \A i \in Slots :
           activePieces[i] # NullPiece =>
             \A r \in AnchorRows(activePieces[i]) :
             \A c \in AnchorCols(activePieces[i]) :
                ~ Fits(grid, activePieces[i], r, c)

\* game over found by the check after a placement that left pieces in the
\* tray
C21_Witness ==
  /\ last.op = "up"
  /\ last.valid
  /\ ~ last.spawned
  /\ last.fired
  /\ ~ modalHidden

====
